---- MODULE Spec2Model ----
(***************************************************************************)
(* BitGo statics: the network catalog (networks.ts) and the coin feature   *)
(* contract validated by BaseCoin (base.ts).                               *)
(*                                                                         *)
(* JavaScript values are modelled as follows.                              *)
(*   - an object is a record [frozen, props]: Object.freeze sets frozen on *)
(*     that one object and on nothing it refers to;                        *)
(*   - undefined is the string Undefined;                                  *)
(*   - a Set<CoinFeature> is a duplicate-free sequence in insertion order  *)
(*     (the order Array.from and for..of enumerate it in);                 *)
(*   - an array is a sequence, held in the heap `arrays` and referred to   *)
(*     by its index there.                                                 *)
(***************************************************************************)
EXTENDS Integers, Sequences, FiniteSets, TLC

VARIABLES
    networks,       \* the object graph under the exported const Networks
    handle,         \* the Network reference the caller last obtained
    outcome,        \* how the caller's last assignment ended
    assigned,       \* the property paths a caller's assignment took effect on
    writes,         \* number of caller assignments attempted
    requiredSet,    \* the coin class's required-feature set
    disallowedSet,  \* the coin class's disallowed-feature set
    sharedRequired, \* requiredFeatures() returns requiredSet itself, not a copy
    arrays,         \* heap of the caller's CoinFeature[] arrays
    options,        \* the caller's options object
    coins,          \* the coin objects handed to the caller
    call,           \* arguments and result of the latest construction attempt
    attempts        \* number of construction attempts

vars == <<networks, handle, outcome, assigned, writes, requiredSet,
          disallowedSet, sharedRequired, arrays, options, coins, call,
          attempts>>

netVars == <<networks, handle, outcome, assigned, writes>>

coinVars == <<requiredSet, disallowedSet, sharedRequired, arrays, options,
              coins, call, attempts>>

----------------------------------------------------------------------------
(* Bounds *)

MaxWrites == 2

MaxAttempts == 2

MaxArrays == 2

MaxLen == 2

----------------------------------------------------------------------------
(* JavaScript object primitives *)

Undefined == "undefined"

None == "none"

NoHandle == << >>

Range(s) == {s[i] : i \in DOMAIN s}

\* A newly created (extensible, unfrozen) object with the given properties.
NewObject(props) == [frozen |-> FALSE, props |-> props]

\* Object.freeze(obj): shallow; the objects obj's properties refer to stay
\* as they are.
ObjectFreeze(obj) == [obj EXCEPT !.frozen = TRUE]

\* obj.f read through a prototype chain (nearest object first).
RECURSIVE Get(_, _)
Get(chain, f) ==
    IF chain = << >> THEN Undefined
    ELSE IF f \in DOMAIN Head(chain) THEN Head(chain)[f]
    ELSE Get(Tail(chain), f)

\* obj.f = v: rejected on a frozen object, applied otherwise.
CanAssign(obj) == ~obj.frozen

----------------------------------------------------------------------------
(* networks.ts: the classes.  A class field initialiser runs in the       *)
(* constructor and creates an own property of the instance; the class's   *)
(* prototype object carries `constructor` and the methods only, and these *)
(* classes declare no methods.                                            *)

NetworkType == [MAINNET |-> "mainnet", TESTNET |-> "testnet"]

CoinFamily ==
    [BTC |-> "btc", BTG |-> "btg", ETH |-> "eth", LTC |-> "ltc",
     XLM |-> "xlm", XRP |-> "xrp"]

ObjectPrototype == [constructor |-> "Object"]

\* The prototype chain starting at C.prototype, for a class C extending
\* base class B.
PrototypeChain(C, B) ==
    << [constructor |-> C], [constructor |-> B], ObjectPrototype >>

Mainnet == [type |-> NetworkType.MAINNET]

Testnet == [type |-> NetworkType.TESTNET]

Ethereum == Mainnet @@ [family |-> CoinFamily.ETH]

Kovan ==
    Testnet @@ [family |-> Get(PrototypeChain("Ethereum", "Mainnet"), "family")]

BTC_FAMILY_MAINNET_BIP32_PUBLIC == 76067358   \* 0x0488b21e

BTC_FAMILY_MAINNET_BIP32_PRIVATE == 76066276  \* 0x0488ade4

BTC_FAMILY_WIF == 128                         \* 0x80

Bitcoin ==
    Mainnet @@
    [messagePrefix |-> "\\x18Bitcoin Signed Message:\\n",
     bech32        |-> "bc",
     bip32         |-> NewObject([public  |-> BTC_FAMILY_MAINNET_BIP32_PUBLIC,
                                  private |-> BTC_FAMILY_MAINNET_BIP32_PRIVATE]),
     pubKeyHash    |-> 0,      \* 0x00
     scriptHash    |-> 5,      \* 0x05
     wif           |-> BTC_FAMILY_WIF,
     family        |-> CoinFamily.BTC]

\* BitcoinTestnet with the wif taken from the shared mainnet constant.
BitcoinTestnetSharedWif ==
    Testnet @@
    [bech32        |-> "tb",
     bip32         |-> NewObject([public  |-> 70617039,
                                  private |-> 70615956]),
     pubKeyHash    |-> 111,
     scriptHash    |-> 196,
     wif           |-> BTC_FAMILY_WIF,
     messagePrefix |-> Get(PrototypeChain("Bitcoin", "Mainnet"), "messagePrefix"),
     family        |-> Get(PrototypeChain("Bitcoin", "Mainnet"), "family")]

BitcoinTestnet ==
    Testnet @@
    [bech32        |-> "tb",
     bip32         |-> NewObject([public  |-> 70617039,     \* 0x043587cf
                                  private |-> 70615956]),   \* 0x04358394
     pubKeyHash    |-> 111,    \* 0x6f
     scriptHash    |-> 196,    \* 0xc4
     wif           |-> 239,    \* 0xef
     messagePrefix |-> Get(PrototypeChain("Bitcoin", "Mainnet"), "messagePrefix"),
     family        |-> Get(PrototypeChain("Bitcoin", "Mainnet"), "family")]

BitcoinGold ==
    Mainnet @@
    [messagePrefix |-> "\\x18Bitcoin Gold Signed Message:\\n",
     bech32        |-> "btg",
     bip32         |-> NewObject([public  |-> BTC_FAMILY_MAINNET_BIP32_PUBLIC,
                                  private |-> BTC_FAMILY_MAINNET_BIP32_PRIVATE]),
     pubKeyHash    |-> 38,     \* 0x26
     scriptHash    |-> 23,     \* 0x17
     wif           |-> BTC_FAMILY_WIF,
     family        |-> CoinFamily.BTG]

Litecoin ==
    Mainnet @@
    [messagePrefix |-> "\\x19Litecoin Signed Message:\\n",
     bech32        |-> "ltc",
     bip32         |-> NewObject([public  |-> BTC_FAMILY_MAINNET_BIP32_PUBLIC,
                                  private |-> BTC_FAMILY_MAINNET_BIP32_PRIVATE]),
     pubKeyHash    |-> 48,     \* 0x30
     scriptHash    |-> 50,     \* 0x32
     wif           |-> 176,    \* 0xb0
     family        |-> CoinFamily.LTC]

LitecoinTestnet ==
    Testnet @@
    [bech32        |-> "tltc",
     bip32         |-> NewObject([public  |-> BTC_FAMILY_MAINNET_BIP32_PUBLIC,
                                  private |-> BTC_FAMILY_MAINNET_BIP32_PRIVATE]),
     pubKeyHash    |-> 111,    \* 0x6f
     scriptHash    |-> 58,     \* 0x3a
     wif           |-> 176,    \* 0xb0
     messagePrefix |-> Get(PrototypeChain("Litecoin", "Mainnet"), "messagePrefix"),
     family        |-> Get(PrototypeChain("Litecoin", "Mainnet"), "family")]

Ripple == Mainnet @@ [family |-> CoinFamily.XRP]

RippleTestnet ==
    Testnet @@ [family |-> Get(PrototypeChain("Ripple", "Mainnet"), "family")]

Stellar == Mainnet @@ [family |-> CoinFamily.XLM]

StellarTestnet ==
    Testnet @@ [family |-> Get(PrototypeChain("Stellar", "Mainnet"), "family")]

\* export const Networks
Networks ==
    [main |->
        [bitcoin     |-> ObjectFreeze(NewObject(Bitcoin)),
         bitcoinGold |-> ObjectFreeze(NewObject(BitcoinGold)),
         litecoin    |-> ObjectFreeze(NewObject(Litecoin)),
         ethereum    |-> ObjectFreeze(NewObject(Ethereum)),
         ripple      |-> ObjectFreeze(NewObject(Ripple)),
         stellar     |-> ObjectFreeze(NewObject(Stellar))],
     test |->
        [bitcoin     |-> ObjectFreeze(NewObject(BitcoinTestnet)),
         litecoin    |-> ObjectFreeze(NewObject(LitecoinTestnet)),
         kovan       |-> ObjectFreeze(NewObject(Kovan)),
         ripple      |-> ObjectFreeze(NewObject(RippleTestnet)),
         stellar     |-> ObjectFreeze(NewObject(StellarTestnet))]]

\* The references a caller can obtain: Networks.<kind>.<name>.
Handles == UNION {{<<k, n>> : n \in DOMAIN Networks[k]} : k \in DOMAIN Networks}

\* Values a caller tries to store into a network parameter.
WriteValues == {0, BTC_FAMILY_MAINNET_BIP32_PUBLIC}

\* What a rejected assignment looks like to the caller: a TypeError in strict
\* code, nothing at all in sloppy code.
Rejections == {"TypeError", "ignored"}

InitNet ==
    /\ networks = Networks
    /\ handle = NoHandle
    /\ outcome = None
    /\ assigned = {}
    /\ writes = 0

\* const net = Networks[k][n]
Lookup(k, n) ==
    /\ handle' = <<k, n>>
    /\ UNCHANGED <<networks, outcome, assigned, writes>>

\* net[f] = v
AssignField(f, v) ==
    /\ handle # NoHandle
    /\ writes < MaxWrites
    /\ f \in DOMAIN networks[handle[1]][handle[2]].props
    /\ f # "bip32"
    /\ writes' = writes + 1
    /\ IF CanAssign(networks[handle[1]][handle[2]])
       THEN /\ networks' =
                 [networks EXCEPT ![handle[1]][handle[2]].props[f] = v]
            /\ outcome' = "assigned"
            /\ assigned' = assigned \cup {<<handle[1], handle[2], f>>}
       ELSE /\ outcome' \in Rejections
            /\ UNCHANGED <<networks, assigned>>
    /\ UNCHANGED handle

\* net.bip32[f] = v
AssignBip32(f, v) ==
    /\ handle # NoHandle
    /\ writes < MaxWrites
    /\ "bip32" \in DOMAIN networks[handle[1]][handle[2]].props
    /\ f \in DOMAIN networks[handle[1]][handle[2]].props.bip32.props
    /\ writes' = writes + 1
    /\ IF CanAssign(networks[handle[1]][handle[2]].props.bip32)
       THEN /\ networks' =
                 [networks EXCEPT
                     ![handle[1]][handle[2]].props.bip32.props[f] = v]
            /\ outcome' = "assigned"
            /\ assigned' = assigned \cup {<<handle[1], handle[2], "bip32", f>>}
       ELSE /\ outcome' \in Rejections
            /\ UNCHANGED <<networks, assigned>>
    /\ UNCHANGED handle

----------------------------------------------------------------------------
(* base.ts: CoinFeature, BaseCoinConstructorOptions, BaseCoin *)

CoinFeature ==
    [UNSPENT_MODEL         |-> "unspent-model",
     ACCOUNT_MODEL         |-> "account-model",
     CHILD_PAYS_FOR_PARENT |-> "cpfp"]

Features == Range(CoinFeature)

\* Arrays of at most n features.
RECURSIVE FeatureArrays(_)
FeatureArrays(n) ==
    IF n = 0 THEN {<< >>}
    ELSE FeatureArrays(n - 1) \cup
         {Append(a, f) : a \in {b \in FeatureArrays(n - 1) : Len(b) = n - 1},
                         f \in Features}

\* new Set([...]) of each subset of the features, in declaration order.
FeatureSets ==
    {SelectSeq(<<CoinFeature.UNSPENT_MODEL, CoinFeature.ACCOUNT_MODEL,
                 CoinFeature.CHILD_PAYS_FOR_PARENT>>,
               LAMBDA f : f \in S) : S \in SUBSET Features}

\* Set.prototype.has
SetHas(set, x) == \E i \in DOMAIN set : set[i] = x

\* Set.prototype.delete with no effect.
SetDeleteNothing(set, x) == set

\* Set.prototype.delete
SetDelete(set, x) == SelectSeq(set, LAMBDA y : y # x)

\* Array.from(set)
ArrayFrom(set) == set

NoError == [type |-> None]

ConflictingCoinFeaturesError(coinName, features) ==
    [type |-> "ConflictingCoinFeaturesError", coinName |-> coinName,
     features |-> features]

DisallowedCoinFeatureError(coinName, feature) ==
    [type |-> "DisallowedCoinFeatureError", coinName |-> coinName,
     feature |-> feature]

MissingRequiredCoinFeatureError(coinName, features) ==
    [type |-> "MissingRequiredCoinFeatureError", coinName |-> coinName,
     features |-> features]

\* Array.prototype.find in place of filter: the first conflict only.
intersectionFirst(required, disallowed) ==
    LET all == SelectSeq(ArrayFrom(required),
                         LAMBDA feat : SetHas(disallowed, feat))
    IN  IF all = << >> THEN << >> ELSE <<Head(all)>>

\* Array.from(requiredFeatures).filter(feat => disallowedFeatures.has(feat))
intersectionFeatures(required, disallowed) ==
    SelectSeq(ArrayFrom(required), LAMBDA feat : SetHas(disallowed, feat))

\* for (const feature of options.features) { ... } from position i on: the
\* error thrown, if any, and the required set as the loop leaves it.
RECURSIVE forOfFrom(_, _, _, _, _)
forOfFrom(required, disallowed, name, features, i) ==
    IF i > Len(features)
    THEN [thrown |-> NoError, required |-> required]
    ELSE IF SetHas(disallowed, features[i])
    THEN [thrown   |-> DisallowedCoinFeatureError(name, features[i]),
          required |-> required]
    ELSE forOfFrom(IF SetHas(required, features[i])
                   THEN SetDelete(required, features[i])
                   ELSE required,
                   disallowed, name, features, i + 1)

\* The loop stopping one element early.
forOfSkipLast(required, disallowed, name, features) ==
    forOfFrom(required, disallowed, name,
              SubSeq(features, 1, Len(features) - 1), 1)

forOf(required, disallowed, name, features) ==
    forOfFrom(required, disallowed, name, features, 1)

\* validateOptions without its closing size check.
validateOptionsNoSizeCheck(required, disallowed, name, features) ==
    IF Len(intersectionFeatures(required, disallowed)) > 0
    THEN [thrown   |-> ConflictingCoinFeaturesError(
                           name, intersectionFeatures(required, disallowed)),
          required |-> required]
    ELSE forOf(required, disallowed, name, features)

\* validateOptions(options), given the set objects requiredFeatures() and
\* disallowedFeatures() returned: the error thrown (NoError when it returns)
\* and the contents of the required set object afterwards.
validateOptions(required, disallowed, name, features) ==
    IF Len(intersectionFeatures(required, disallowed)) > 0
    THEN [thrown   |-> ConflictingCoinFeaturesError(
                           name, intersectionFeatures(required, disallowed)),
          required |-> required]
    ELSE LET loop == forOf(required, disallowed, name, features)
         IN  IF loop.thrown.type # None THEN loop
             ELSE IF Len(loop.required) > 0
             THEN [thrown   |-> MissingRequiredCoinFeatureError(
                                    name, ArrayFrom(loop.required)),
                   required |-> loop.required]
             ELSE loop

\* The options objects callers pass (features is filled in by the caller).
OptionsPool ==
    {[fullName |-> "Bitcoin", name |-> "btc", prefix |-> Undefined,
      suffix |-> Undefined, kind |-> "crypto", isToken |-> FALSE,
      decimalPlaces |-> 8, asset |-> "btc", network |-> <<"main", "bitcoin">>],
     [fullName |-> "Testnet Bitcoin", name |-> "tbtc", prefix |-> Undefined,
      suffix |-> Undefined, kind |-> "crypto", isToken |-> FALSE,
      decimalPlaces |-> 8, asset |-> "btc", network |-> <<"test", "bitcoin">>]}

NoOptions == [name |-> None]

NoCoin == [name |-> None]

\* The field assignments of the constructor, as run on `this`.
AssignFields(o) ==
    [fullName      |-> o.fullName,
     name          |-> o.name,
     prefix        |-> o.prefix,
     suffix        |-> o.suffix,
     kind          |-> o.kind,
     family        |-> networks[o.network[1]][o.network[2]].props.family,
     isToken       |-> o.isToken,
     features      |-> o.features,
     decimalPlaces |-> o.decimalPlaces,
     asset         |-> o.asset,
     network       |-> o.network]

\* A constructor that hands out the object whatever validation said.
BaseCoinUnvalidated(o, validation) == AssignFields(o)

\* new BaseCoin(options): the object the caller receives, NoCoin when
\* validateOptions threw.
BaseCoin(o, validation) ==
    IF validation.thrown.type # None THEN NoCoin ELSE AssignFields(o)

InitCoin ==
    /\ requiredSet \in FeatureSets
    /\ disallowedSet \in FeatureSets
    /\ sharedRequired \in BOOLEAN
    /\ coins = << >>
    /\ call = [thrown |-> NoError]
    /\ attempts = 0

\* new SomeCoin(options)
Construct ==
    /\ options.name # None
    /\ attempts < MaxAttempts
    /\ LET required   == requiredSet
           disallowed == disallowedSet
           features   == arrays[options.features]
           validation == validateOptions(required, disallowed, options.name,
                                         features)
           coin       == BaseCoin(options, validation)
       IN  /\ requiredSet' = IF sharedRequired THEN validation.required
                             ELSE requiredSet
           /\ coins' = IF coin.name = None THEN coins ELSE Append(coins, coin)
           /\ call' = [name       |-> options.name,
                       features   |-> features,
                       required   |-> required,
                       disallowed |-> disallowed,
                       thrown     |-> validation.thrown]
    /\ attempts' = attempts + 1
    /\ UNCHANGED <<disallowedSet, sharedRequired, arrays, options>>

\* const features = [...]
NewArray(a) ==
    /\ Len(arrays) < MaxArrays
    /\ arrays' = Append(arrays, a)
    /\ UNCHANGED <<requiredSet, disallowedSet, sharedRequired, coins, call,
                   attempts, options>>

\* const options = { ..., features }, or options.<field> = ...
SetOptions(o, id) ==
    /\ id \in DOMAIN arrays
    /\ options' = o @@ [features |-> id]
    /\ options' # options
    /\ UNCHANGED <<requiredSet, disallowedSet, sharedRequired, coins, call,
                   attempts, arrays>>

\* features.push(f)
ArrayPush(id, f) ==
    /\ id \in DOMAIN arrays
    /\ Len(arrays[id]) < MaxLen
    /\ arrays' = [arrays EXCEPT ![id] = Append(@, f)]
    /\ UNCHANGED <<requiredSet, disallowedSet, sharedRequired, coins, call,
                   attempts, options>>

\* features.pop()
ArrayPop(id) ==
    /\ id \in DOMAIN arrays
    /\ Len(arrays[id]) > 0
    /\ arrays' = [arrays EXCEPT ![id] = SubSeq(@, 1, Len(@) - 1)]
    /\ UNCHANGED <<requiredSet, disallowedSet, sharedRequired, coins, call,
                   attempts, options>>

----------------------------------------------------------------------------
(* Specifications *)

\* Construction: every class contract, every options object.
Init ==
    /\ InitNet
    /\ InitCoin
    /\ \E a \in FeatureArrays(MaxLen), o \in OptionsPool :
          /\ arrays = <<a>>
          /\ options = o @@ [features |-> 1]

Next ==
    \/ Construct /\ UNCHANGED netVars
    \/ ArrayPop(1) /\ UNCHANGED netVars

Spec == Init /\ [][Next]_vars

\* The life of a coin next to its caller, for a class with
\* required = {UNSPENT_MODEL} and disallowed = {ACCOUNT_MODEL}.
InitLife ==
    /\ InitNet
    /\ InitCoin
    /\ requiredSet = <<CoinFeature.UNSPENT_MODEL>>
    /\ disallowedSet = <<CoinFeature.ACCOUNT_MODEL>>
    /\ arrays = << >>
    /\ options = NoOptions

NextLife ==
    \/ \E a \in FeatureArrays(MaxLen) : NewArray(a) /\ UNCHANGED netVars
    \/ \E o \in OptionsPool, id \in 1..MaxArrays :
          SetOptions(o, id) /\ UNCHANGED netVars
    \/ \E id \in 1..MaxArrays, f \in Features :
          ArrayPush(id, f) /\ UNCHANGED netVars
    \/ \E id \in 1..MaxArrays : ArrayPop(id) /\ UNCHANGED netVars
    \/ Construct /\ UNCHANGED netVars

SpecLife == InitLife /\ [][NextLife]_vars

\* The catalog and a caller assigning to what it was handed.
InitCatalog ==
    /\ InitNet
    /\ requiredSet = << >>
    /\ disallowedSet = << >>
    /\ sharedRequired = FALSE
    /\ arrays = << >>
    /\ options = NoOptions
    /\ coins = << >>
    /\ call = [thrown |-> NoError]
    /\ attempts = 0

NextCatalog ==
    \/ \E h \in Handles : Lookup(h[1], h[2]) /\ UNCHANGED coinVars
    \/ \E f \in {"type", "family", "messagePrefix", "bech32", "pubKeyHash",
                 "scriptHash", "wif"}, v \in WriteValues :
          AssignField(f, v) /\ UNCHANGED coinVars
    \/ \E f \in {"public", "private"}, v \in WriteValues :
          AssignBip32(f, v) /\ UNCHANGED coinVars

SpecCatalog == InitCatalog /\ [][NextCatalog]_vars

----------------------------------------------------------------------------
(* Properties of validateOptions and the constructor (Spec) *)

Attempted == attempts > 0

Conflict == Range(call.required) \cap Range(call.disallowed)

ProvidedDisallowed == Range(call.features) \cap Range(call.disallowed)

Missing == Range(call.required) \ Range(call.features)

NoDuplicates(a) == Cardinality(Range(a)) = Len(a)

\* C1: a construction attempt succeeds exactly when the class contract has
\* no conflict, no provided feature is disallowed and every required feature
\* is provided; features outside both sets do not matter.
C1_SucceedsIffNoFailureCondition ==
    Attempted =>
        ((call.thrown.type = None) <=>
            (Conflict = {} /\ ProvidedDisallowed = {} /\ Missing = {}))

\* C1 witness: required = {UNSPENT_MODEL}, disallowed = {ACCOUNT_MODEL},
\* provided = [UNSPENT_MODEL, CPFP] was accepted and the coin exists.
C1_Witness ==
    /\ Attempted
    /\ call.required = <<CoinFeature.UNSPENT_MODEL>>
    /\ call.disallowed = <<CoinFeature.ACCOUNT_MODEL>>
    /\ call.features = <<CoinFeature.UNSPENT_MODEL,
                         CoinFeature.CHILD_PAYS_FOR_PARENT>>
    /\ call.thrown.type = None
    /\ Len(coins) = 1

DisallowedReported ==
    /\ call.thrown.type = "DisallowedCoinFeatureError"
    /\ call.thrown.coinName = call.name
    /\ call.thrown.feature \in ProvidedDisallowed

\* C2 as stated: whenever a provided feature is disallowed, the attempt
\* fails with DisallowedCoinFeatureError naming the coin and a provided
\* disallowed feature.
C2_Original == (Attempted /\ ProvidedDisallowed # {}) => DisallowedReported

\* C2 amended: whenever a provided feature is disallowed and the class's
\* required and disallowed sets do not overlap, the attempt fails with
\* DisallowedCoinFeatureError naming the coin and a provided disallowed
\* feature, whatever else is provided and wherever the feature stands.
C2_DisallowedUnlessConflict ==
    (Attempted /\ ProvidedDisallowed # {} /\ Conflict = {})
        => DisallowedReported

\* C2 witness: the disallowed feature stands last and the required feature
\* is missing as well.
C2_Witness ==
    /\ Attempted
    /\ call.required = <<CoinFeature.UNSPENT_MODEL>>
    /\ call.disallowed = <<CoinFeature.ACCOUNT_MODEL>>
    /\ call.features = <<CoinFeature.CHILD_PAYS_FOR_PARENT,
                         CoinFeature.ACCOUNT_MODEL>>
    /\ call.thrown.type = "DisallowedCoinFeatureError"
    /\ call.thrown.feature = CoinFeature.ACCOUNT_MODEL

MissingReported ==
    /\ call.thrown.type = "MissingRequiredCoinFeatureError"
    /\ call.thrown.coinName = call.name
    /\ Range(call.thrown.features) = Missing
    /\ NoDuplicates(call.thrown.features)

\* C3 as stated: whenever a required feature is omitted, the attempt fails
\* with MissingRequiredCoinFeatureError carrying exactly required - provided.
C3_Original == (Attempted /\ Missing # {}) => MissingReported

\* C3 amended: whenever a required feature is omitted, the class's required
\* and disallowed sets do not overlap and no provided feature is disallowed,
\* the attempt fails with MissingRequiredCoinFeatureError carrying exactly
\* required - provided, without duplicates.
C3_MissingUnlessEarlierFailure ==
    (Attempted /\ Missing # {} /\ Conflict = {} /\ ProvidedDisallowed = {})
        => MissingReported

\* C3 witness: two features required, one of them provided twice.
C3_Witness ==
    /\ Attempted
    /\ call.required = <<CoinFeature.UNSPENT_MODEL,
                         CoinFeature.CHILD_PAYS_FOR_PARENT>>
    /\ call.features = <<CoinFeature.UNSPENT_MODEL, CoinFeature.UNSPENT_MODEL>>
    /\ call.thrown.type = "MissingRequiredCoinFeatureError"
    /\ call.thrown.features = <<CoinFeature.CHILD_PAYS_FOR_PARENT>>

\* C4: when the class's required and disallowed sets overlap, the attempt
\* fails with ConflictingCoinFeaturesError naming the coin and carrying
\* exactly the overlap, whatever is provided, and no feature has been taken
\* out of the required set.
C4_ConflictFirst ==
    (Attempted /\ Conflict # {}) =>
        /\ call.thrown.type = "ConflictingCoinFeaturesError"
        /\ call.thrown.coinName = call.name
        /\ Range(call.thrown.features) = Conflict
        /\ NoDuplicates(call.thrown.features)
        /\ requiredSet = call.required

\* C4 witness: two features in the overlap, a disallowed feature provided
\* and a required one missing.
C4_Witness ==
    /\ Attempted
    /\ call.required = <<CoinFeature.UNSPENT_MODEL, CoinFeature.ACCOUNT_MODEL>>
    /\ call.disallowed = <<CoinFeature.UNSPENT_MODEL, CoinFeature.ACCOUNT_MODEL>>
    /\ call.features = <<CoinFeature.ACCOUNT_MODEL>>
    /\ call.thrown.type = "ConflictingCoinFeaturesError"

\* C5 as stated: a construction attempt leaves the class's required and
\* disallowed sets and the caller's features list as they were.
C5_Original ==
    [][attempts' # attempts =>
          /\ requiredSet' = requiredSet
          /\ disallowedSet' = disallowedSet
          /\ arrays' = arrays]_vars

\* C9: a construction attempt whose validation throws leaves the coins the
\* caller holds exactly as they were.
C9_FailureMakesNoCoin ==
    [][(attempts' # attempts /\ call'.thrown.type # None)
          => coins' = coins]_vars

\* C9 witness: a failed attempt after a successful one; the one coin is
\* still the only one.
C9_Witness ==
    /\ attempts = 2
    /\ call.thrown.type # None
    /\ Len(coins) = 1

----------------------------------------------------------------------------
(* Properties of a coin over its life (SpecLife) *)

\* C8 as stated: the features of every coin keep satisfying what was
\* validated at construction: none is disallowed, every required one is there.
C8_Original ==
    \A i \in DOMAIN coins :
        /\ Range(arrays[coins[i].features]) \cap Range(disallowedSet) = {}
        /\ CoinFeature.UNSPENT_MODEL \in Range(arrays[coins[i].features])

----------------------------------------------------------------------------
(* Properties of the catalog (SpecCatalog) *)

Pairs ==
    {<<"bitcoin", "bitcoin">>, <<"litecoin", "litecoin">>,
     <<"ethereum", "kovan">>, <<"ripple", "ripple">>,
     <<"stellar", "stellar">>}

UtxoPairs == {<<"bitcoin", "bitcoin">>, <<"litecoin", "litecoin">>}

\* C6 as stated: a testnet instance has its mainnet counterpart's family,
\* and a UTXO testnet instance its counterpart's (defined) messagePrefix.
C6_Original ==
    /\ \A p \in Pairs :
          networks.test[p[2]].props.family = networks.main[p[1]].props.family
    /\ \A p \in UtxoPairs :
          /\ networks.test[p[2]].props.messagePrefix # Undefined
          /\ networks.test[p[2]].props.messagePrefix =
                networks.main[p[1]].props.messagePrefix

\* C7 as stated: whatever a caller assigns, every parameter of every
\* instance, bip32.public and bip32.private included, keeps the value it
\* had at creation.
C7_Original == networks = Networks

\* The parameter table of the specification (section 6).
Table ==
    [main |->
        [bitcoin     |-> [bech32 |-> "bc", public |-> 76067358,
                          private |-> 76066276, pubKeyHash |-> 0,
                          scriptHash |-> 5, wif |-> 128],
         bitcoinGold |-> [bech32 |-> "btg", public |-> 76067358,
                          private |-> 76066276, pubKeyHash |-> 38,
                          scriptHash |-> 23, wif |-> 128],
         litecoin    |-> [bech32 |-> "ltc", public |-> 76067358,
                          private |-> 76066276, pubKeyHash |-> 48,
                          scriptHash |-> 50, wif |-> 176]],
     test |->
        [bitcoin     |-> [bech32 |-> "tb", public |-> 70617039,
                          private |-> 70615956, pubKeyHash |-> 111,
                          scriptHash |-> 196, wif |-> 239],
         litecoin    |-> [bech32 |-> "tltc", public |-> 76067358,
                          private |-> 76066276, pubKeyHash |-> 111,
                          scriptHash |-> 58, wif |-> 176]]]

AccountNetworks ==
    {<<"main", "ethereum">>, <<"main", "ripple">>, <<"main", "stellar">>,
     <<"test", "kovan">>, <<"test", "ripple">>, <<"test", "stellar">>}

\* C10: each UTXO instance carries the table's bech32, pubKeyHash,
\* scriptHash and wif, and the table's bip32.public and bip32.private
\* wherever no caller has assigned to them; the account-model instances
\* have the properties family and type and no other.
C10_CatalogMatchesTable ==
    /\ \A k \in DOMAIN Table : \A n \in DOMAIN Table[k] :
          /\ \A f \in {"bech32", "pubKeyHash", "scriptHash", "wif"} :
                networks[k][n].props[f] = Table[k][n][f]
          /\ \A f \in {"public", "private"} :
                <<k, n, "bip32", f>> \notin assigned =>
                    networks[k][n].props.bip32.props[f] = Table[k][n][f]
    /\ \A h \in AccountNetworks :
          DOMAIN networks[h[1]][h[2]].props = {"family", "type"}

\* C10 witness: the caller looked up Bitcoin testnet, tried to overwrite a
\* parameter and was refused; the table's values are all there.
C10_Witness ==
    /\ handle = <<"test", "bitcoin">>
    /\ outcome = "TypeError"
    /\ assigned = {}
    /\ networks.test.bitcoin.props.wif = 239
    /\ networks.test.bitcoin.props.bip32.props.public = 70617039

====
